---- MODULE Spec2Model ----
(***************************************************************************)
(* A model of rennet/utils/label_utils.py: the SequenceLabels and          *)
(* ContiguousSequenceLabels classes.                                       *)
(*                                                                         *)
(* Numbers.  The arrays of the program hold floats (or ints); for the     *)
(* segments the model holds exact rationals <<n, d>> in lowest terms with  *)
(* d > 0, so a boundary multiplied by (to / from) and back is the boundary *)
(* again.  SpecConvert and SpecAnchor compute _convert_samplerate on one   *)
(* Python number as IEEE-754 binary64 does, rounding included.  A query    *)
(* time closer to a boundary than np.round's 10 decimals is held as its    *)
(* decimal digits.                                                         *)
(* Sample rates are integers.  None is the empty tuple <<>>, and a given   *)
(* argument r is <<r>>.                                                    *)
(***************************************************************************)
EXTENDS Integers, Sequences, FiniteSets, Bags, TLC

VARIABLES
    cls,                    \* class of the instance, "NoInstance" before construction
    _starts_ends,           \* self._starts_ends, the stored boundaries
    labels,                 \* self.labels
    _orig_samplerate,       \* self._orig_samplerate
    _samplerate,            \* self._samplerate
    _minstart_at_orig_sr,   \* self._minstart_at_orig_sr
    frames,                 \* the suspended context-manager generators, outermost first
    child,                  \* the instance the last __getitem__ returned
    ret,                    \* what the last call returned or raised
    args,                   \* history: the arguments the constructor was called with
    entered                 \* history: per open with-block, what its caller passed and saw

vars == <<cls, _starts_ends, labels, _orig_samplerate, _samplerate,
          _minstart_at_orig_sr, frames, child, ret, args, entered>>

-----------------------------------------------------------------------------
(* Bounds of the model *)

MaxLen == 3         \* most segments handed to a constructor
MaxDepth == 3       \* deepest nesting of with-blocks

Times == 0 .. 3                     \* boundary values handed to a constructor
InputRates == {0, 1, 2}             \* samplerate handed to a constructor
ScopeRates == {-1, 0, 2, 3}         \* new_samplerate handed to samplerate_as
MinStartRates == {0, 2}             \* samplerate handed to min_start_as
NewStarts == {3}                    \* new_start handed to min_start_as
LabelOf == <<1, 0, 2, 1, 3>>        \* labels[i] of the inputs, by input position

Range(f) == {f[i] : i \in DOMAIN f}

None == <<>>
Some(r) == <<r>>
IsNone(x) == x = <<>>

-----------------------------------------------------------------------------
(* Exact rationals *)

Abs(n) == IF n < 0 THEN 0 - n ELSE n

RECURSIVE GCD(_, _)
GCD(a, b) == IF b = 0 THEN a ELSE GCD(b, a % b)

Rat(n, d) ==
    LET s == IF d < 0 THEN 0 - 1 ELSE 1
        g == GCD(Abs(n), Abs(d))
    IN  <<(s * n) \div g, (s * d) \div g>>

R(n) == <<n, 1>>
RSub(x, y) == Rat(x[1] * y[2] - y[1] * x[2], x[2] * y[2])
RMul(x, y) == Rat(x[1] * y[1], x[2] * y[2])
RLt(x, y) == x[1] * y[2] < y[1] * x[2]
RLe(x, y) == x[1] * y[2] <= y[1] * x[2]
IsIntegral(x) == Len(x) = 2 /\ x[2] = 1

(* an (N, 2) array: a sequence of <<start, end>> pairs *)
MapPairs(Op(_), se) == [i \in 1 .. Len(se) |-> <<Op(se[i][1]), Op(se[i][2])>>]

-----------------------------------------------------------------------------
(* SequenceLabels._convert_samplerate *)

(* Both rates are > 0 at every call: the constructor and samplerate_as     *)
(* refuse a rate <= 0 before any conversion, so the ValueError of lines    *)
(* 116-119 is never raised and the operator is the arithmetic alone.       *)
_convert_samplerate(value, from_samplerate, to_samplerate) ==
    IF to_samplerate = from_samplerate
    THEN value
    ELSE IF to_samplerate > from_samplerate /\ to_samplerate % from_samplerate = 0
         THEN RMul(value, R(to_samplerate \div from_samplerate))
         ELSE RMul(value, Rat(to_samplerate, from_samplerate))

ConvertArray(se, from_samplerate, to_samplerate) ==
    LET c(x) == _convert_samplerate(x, from_samplerate, to_samplerate)
    IN  MapPairs(c, se)

-----------------------------------------------------------------------------
(* SequenceLabels.__init__ *)

KeyLeStartOnly(a, b) == RLe(a[1], b[1])

(* np.lexsort, keys (ends, starts): a stable sort on start, then on end.   *)
(* KeyLe(a, b): the pair a does not sort after the pair b.                 *)
KeyLe(a, b) == RLt(a[1], b[1]) \/ (a[1] = b[1] /\ RLe(a[2], b[2]))

RECURSIVE InsertIdx(_, _, _)
InsertIdx(sorted, i, se) ==
    IF sorted = <<>> THEN <<i>>
    ELSE IF KeyLe(se[sorted[Len(sorted)]], se[i])
         THEN Append(sorted, i)
         ELSE Append(InsertIdx(SubSeq(sorted, 1, Len(sorted) - 1), i, se),
                     sorted[Len(sorted)])

RECURSIVE LexsortUpTo(_, _)
LexsortUpTo(se, n) ==
    IF n = 0 THEN <<>> ELSE InsertIdx(LexsortUpTo(se, n - 1), n, se)

sort_idx(se) == LexsortUpTo(se, Len(se))

Take(a, idx) == [k \in 1 .. Len(idx) |-> a[idx[k]]]

NoInstance ==
    [cls |-> "NoInstance", _starts_ends |-> <<>>, labels |-> <<>>,
     _orig_samplerate |-> 0, _samplerate |-> 0, _minstart_at_orig_sr |-> R(0)]

Raised(e) == [NoInstance EXCEPT !.cls = e]

InitRateCheck(samplerate) == samplerate <= 0

InitDegenerate(se) == \E i \in 1 .. Len(se) : RLe(RSub(se[i][2], se[i][1]), R(0))

(* lines 67-74 *)
Sorted(starts_ends, l, samplerate, idx) ==
    IF Len(idx) = 0
    THEN Raised("IndexError")       \* self._starts_ends[0, 0] of an empty array
    ELSE [cls |-> "SequenceLabels",
          _starts_ends |-> Take(starts_ends, idx),
          labels |-> Take(l, idx),
          _orig_samplerate |-> samplerate,
          _samplerate |-> samplerate,
          _minstart_at_orig_sr |-> starts_ends[idx[1]][1]]

(* The value of SequenceLabels(starts_ends, labels, samplerate): the new   *)
(* instance, or Raised(e) when the constructor raises e.  starts_ends is   *)
(* an array of shape (N, 2), N >= 0.                                       *)
SequenceLabels__init__(starts_ends, l, samplerate) ==
    IF Len(starts_ends) # Len(l)
    THEN Raised("AssertionError: starts_ends and labels mismatch in length")
    ELSE IF InitRateCheck(samplerate)
    THEN Raised("ValueError: samplerate <= 0 not supported")
    ELSE IF InitDegenerate(starts_ends)
    THEN Raised("ValueError: (ends - starts) should be > 0 for all pairs")
    ELSE Sorted(starts_ends, l, samplerate, sort_idx(starts_ends))

-----------------------------------------------------------------------------
(* The starts_ends property, as a function of the fields it reads *)

(* line 162-163: the in-place shift of the stored array *)
Shifted(se, minstart) ==
    IF minstart # se[1][1]
    THEN LET by == RSub(se[1][1], minstart)
             sh(x) == RSub(x, by)
         IN  MapPairs(sh, se)
    ELSE se

(* what self.starts_ends returns *)
starts_ends(se, minstart, orig_sr, sr) ==
    ConvertArray(Shifted(se, minstart), orig_sr, sr)

(* self.min_start *)
min_start(minstart, orig_sr, sr) == _convert_samplerate(minstart, orig_sr, sr)

MaxEndUnshifted(se, minstart, orig_sr, sr) ==
    LET v == ConvertArray(se, orig_sr, sr) IN v[Len(v)][2]

(* self.max_end *)
max_end(se, minstart, orig_sr, sr) ==
    LET v == starts_ends(se, minstart, orig_sr, sr) IN v[Len(v)][2]

-----------------------------------------------------------------------------
(* ContiguousSequenceLabels.__init__ *)

AllTouch(se) == \A i \in 1 .. Len(se) - 1 : se[i + 1][1] = se[i][2]

NoGapOnly(se) == \A i \in 1 .. Len(se) - 1 : RLe(se[i + 1][1], se[i][2])

IsContiguous(se) == AllTouch(se)

(* lines 368-373, after super().__init__ made s *)
CheckContiguous(s) ==
    IF s.cls # "SequenceLabels"
    THEN s
    ELSE IF ~IsContiguous(starts_ends(s._starts_ends, s._minstart_at_orig_sr,
                                      s._orig_samplerate, s._samplerate))
         THEN Raised("AssertionError: All ends should be the starts of the next segment")
         ELSE [s EXCEPT !.cls = "ContiguousSequenceLabels"]

ContiguousSequenceLabels__init__(se_in, l, samplerate) ==
    CheckContiguous(SequenceLabels__init__(se_in, l, samplerate))

New(klass, se_in, l, samplerate) ==
    IF klass = "ContiguousSequenceLabels"
    THEN ContiguousSequenceLabels__init__(se_in, l, samplerate)
    ELSE SequenceLabels__init__(se_in, l, samplerate)

Classes == {"SequenceLabels", "ContiguousSequenceLabels"}
Exists(s) == s.cls \in Classes

-----------------------------------------------------------------------------
(* State shared by the specifications *)

NoArgs == [klass |-> "NoInstance", starts_ends |-> <<>>, labels |-> <<>>, samplerate |-> 0]
NoCall == [op |-> "none", raised |-> ""]

(* the instance as a record of its slots *)
Self ==
    [cls |-> cls, _starts_ends |-> _starts_ends, labels |-> labels,
     _orig_samplerate |-> _orig_samplerate, _samplerate |-> _samplerate,
     _minstart_at_orig_sr |-> _minstart_at_orig_sr]

Is(s) ==
    /\ cls = s.cls
    /\ _starts_ends = s._starts_ends
    /\ labels = s.labels
    /\ _orig_samplerate = s._orig_samplerate
    /\ _samplerate = s._samplerate
    /\ _minstart_at_orig_sr = s._minstart_at_orig_sr

(* the instance after the step *)
SelfAfter ==
    [cls |-> cls', _starts_ends |-> _starts_ends', labels |-> labels',
     _orig_samplerate |-> _orig_samplerate', _samplerate |-> _samplerate',
     _minstart_at_orig_sr |-> _minstart_at_orig_sr']

Becomes(s) ==
    /\ cls' = s.cls
    /\ _starts_ends' = s._starts_ends
    /\ labels' = s.labels
    /\ _orig_samplerate' = s._orig_samplerate
    /\ _samplerate' = s._samplerate
    /\ _minstart_at_orig_sr' = s._minstart_at_orig_sr

(* rows handed to a constructor: every pair with end > start, and two with *)
(* end <= start                                                            *)
InputRows ==
    {r \in {<<R(a), R(b)>> : a \in Times, b \in Times} : RLt(r[1], r[2])}
        \cup {<<R(1), R(1)>>, <<R(2), R(1)>>}

InputPairs(n) == [1 .. n -> InputRows]

(* No instance yet *)
Init0 ==
    /\ Is(NoInstance)
    /\ frames = <<>>
    /\ child = NoInstance
    /\ ret = NoCall
    /\ args = NoArgs
    /\ entered = <<>>

-----------------------------------------------------------------------------
(* Construction and indexing *)

Constructed(s, a) ==
    /\ args' = a
    /\ IF Exists(s)
       THEN Becomes(s) /\ ret' = [op |-> "__init__", raised |-> ""]
       ELSE Becomes(NoInstance) /\ ret' = [op |-> "__init__", raised |-> s.cls]
    /\ UNCHANGED <<frames, child, entered>>

(* s = klass(starts_ends, labels, samplerate) *)
Construct ==
    /\ args = NoArgs
    /\ \E klass \in Classes, n \in 0 .. MaxLen, samplerate \in InputRates :
       \E se \in InputPairs(n), nl \in {n, n + 1} :
          Constructed(New(klass, se, SubSeq(LabelOf, 1, nl), samplerate),
                      [klass |-> klass, starts_ends |-> se,
                       labels |-> SubSeq(LabelOf, 1, nl), samplerate |-> samplerate])

(* the positions a[start:stop:step] selects, counted from 1 *)
Slice(start, stop, step) ==
    [k \in 1 .. ((stop - start + step - 1) \div step) |-> start + 1 + (k - 1) * step]

IdxChoices(n) ==
    {<<i>> : i \in 1 .. n}
        \cup {Slice(a, b, st) : a \in 0 .. n, b \in 0 .. n, st \in {1, 2}}

GetItemAtCurrentRate(s, idx) ==
    New(s.cls, Take(s._starts_ends, idx), Take(s.labels, idx), s._samplerate)

(* SequenceLabels.__getitem__ and ContiguousSequenceLabels.__getitem__:    *)
(* the stored rows idx selects, handed to the class's constructor          *)
__getitem__(s, idx) ==
    New(s.cls, Take(s._starts_ends, idx), Take(s.labels, idx), s._orig_samplerate)

Got(c, idx) ==
    /\ child' = IF Exists(c) THEN c ELSE NoInstance
    /\ ret' = [op |-> "__getitem__", idx |-> idx,
               raised |-> IF Exists(c) THEN "" ELSE c.cls]

(* s[idx] *)
GetItem ==
    /\ Exists(Self)
    /\ \E idx \in IdxChoices(Len(labels)) : Got(__getitem__(Self, idx), idx)
    /\ UNCHANGED <<cls, _starts_ends, labels, _orig_samplerate, _samplerate,
                   _minstart_at_orig_sr, frames, args, entered>>

NextInit == Construct \/ GetItem

(* Constructor calls on arbitrary arguments, then indexing *)
SpecInit == Init0 /\ [][NextInit]_vars

-----------------------------------------------------------------------------
(* samplerate_as and min_start_as: entering returns the changed instance   *)
(* and the suspended generator's locals, or what it raised; leaving runs   *)
(* the finally clauses.                                                    *)

RateError == "ValueError: new_samplerate <=0 not supported"

NewRateCheck(new_sr) == new_sr <= 0

EnterNoneResets(s, new_samplerate) ==
    LET old_sr == s._samplerate
        new_sr == IF IsNone(new_samplerate) THEN s._orig_samplerate ELSE new_samplerate[1]
    IN  IF NewRateCheck(new_sr)
        THEN [raised |-> RateError, self |-> s]
        ELSE [raised |-> "",
              self |-> [s EXCEPT !._samplerate = new_sr],
              frame |-> [fn |-> "samplerate_as", old_sr |-> old_sr]]

samplerate_as_enter(s, new_samplerate) ==
    LET old_sr == s._samplerate
        new_sr == IF IsNone(new_samplerate) THEN old_sr ELSE new_samplerate[1]
    IN  IF NewRateCheck(new_sr)
        THEN [raised |-> RateError, self |-> s]
        ELSE [raised |-> "",
              self |-> [s EXCEPT !._samplerate = new_sr],
              frame |-> [fn |-> "samplerate_as", old_sr |-> old_sr]]

ExitToOrig(s, frame) == [s EXCEPT !._samplerate = s._orig_samplerate]

samplerate_as_exit(s, frame) == [s EXCEPT !._samplerate = frame.old_sr]

MinStartEnterKeepsRate(s, new_start, samplerate) ==
    LET old_start == s._minstart_at_orig_sr
        e == samplerate_as_enter(s, samplerate)
    IN  IF e.raised # ""
        THEN e
        ELSE [raised |-> "",
              self |-> [s EXCEPT !._minstart_at_orig_sr =
                            _convert_samplerate(new_start, e.self._samplerate,
                                                e.self._orig_samplerate)],
              frame |-> [fn |-> "min_start_as", old_start |-> old_start,
                         old_sr |-> e.frame.old_sr]]

min_start_as_enter(s, new_start, samplerate) ==
    LET old_start == s._minstart_at_orig_sr
        e == samplerate_as_enter(s, samplerate)
    IN  IF e.raised # ""
        THEN e
        ELSE [raised |-> "",
              self |-> [e.self EXCEPT !._minstart_at_orig_sr =
                            _convert_samplerate(new_start, e.self._samplerate,
                                                e.self._orig_samplerate)],
              frame |-> [fn |-> "min_start_as", old_start |-> old_start,
                         old_sr |-> e.frame.old_sr]]

MinStartExitKeepsAnchor(s, frame) == samplerate_as_exit(s, frame)

min_start_as_exit(s, frame) ==
    samplerate_as_exit([s EXCEPT !._minstart_at_orig_sr = frame.old_start], frame)

__exit__(s, frame) ==
    IF frame.fn = "min_start_as"
    THEN min_start_as_exit(s, frame)
    ELSE samplerate_as_exit(s, frame)

(* an exception leaving the k innermost with-blocks *)
RECURSIVE Unwind(_, _, _)
Unwind(s, fr, k) ==
    IF k = 0 THEN s
    ELSE Unwind(__exit__(s, fr[Len(fr)]), SubSeq(fr, 1, Len(fr) - 1), k - 1)

RateArgs == {None} \cup {Some(r) : r \in ScopeRates}

(* what the caller reads before it enters a with-block *)
Seen(fn, new_start, new_samplerate) ==
    [fn |-> fn, new_start |-> new_start, new_samplerate |-> new_samplerate,
     samplerate |-> _samplerate,
     min_start |-> min_start(_minstart_at_orig_sr, _orig_samplerate, _samplerate)]

Enter(e, fn, new_start, new_samplerate) ==
    IF e.raised # ""
    THEN /\ Becomes(e.self)
         /\ ret' = [op |-> fn, raised |-> e.raised, new_samplerate |-> new_samplerate]
         /\ UNCHANGED <<frames, entered>>
    ELSE /\ Len(frames) < MaxDepth
         /\ Becomes(e.self)
         /\ frames' = Append(frames, e.frame)
         /\ entered' = Append(entered, Seen(fn, new_start, new_samplerate))
         /\ ret' = [op |-> fn, raised |-> ""]

(* with s.samplerate_as(new_samplerate): *)
SamplerateAs ==
    /\ Exists(Self)
    /\ \E new_samplerate \in RateArgs :
          Enter(samplerate_as_enter(Self, new_samplerate),
                "samplerate_as", None, new_samplerate)
    /\ UNCHANGED <<child, args>>

(* with s.min_start_as(new_start, samplerate): *)
MinStartAs ==
    /\ Exists(Self)
    /\ \E new_start \in NewStarts,
          samplerate \in {None} \cup {Some(r) : r \in MinStartRates} :
          Enter(min_start_as_enter(Self, R(new_start), samplerate),
                "min_start_as", Some(new_start), samplerate)
    /\ UNCHANGED <<child, args>>

Leave(k, raised) ==
    /\ Becomes(Unwind(Self, frames, k))
    /\ frames' = SubSeq(frames, 1, Len(frames) - k)
    /\ entered' = SubSeq(entered, 1, Len(entered) - k)
    /\ ret' = [op |-> "__exit__", raised |-> raised]
    /\ UNCHANGED <<child, args>>

(* the body of the innermost with-block ends *)
ExitScope ==
    /\ frames # <<>>
    /\ Leave(1, "")

(* the body of the innermost with-block raises, and the exception is       *)
(* caught outside the k innermost with-blocks                              *)
RaiseInBody ==
    /\ frames # <<>>
    /\ \E k \in 1 .. Len(frames) : Leave(k, "Exception")

-----------------------------------------------------------------------------
(* Reads of the properties *)

(* the stored array after self.starts_ends was read (line 163 writes it) *)
AfterRead(s) ==
    [s EXCEPT !._starts_ends = Shifted(s._starts_ends, s._minstart_at_orig_sr)]

(* what the properties would return, without reading them *)
View(s) == starts_ends(s._starts_ends, s._minstart_at_orig_sr,
                       s._orig_samplerate, s._samplerate)
MinStartOf(s) == min_start(s._minstart_at_orig_sr, s._orig_samplerate, s._samplerate)
MaxEndOf(s) == max_end(s._starts_ends, s._minstart_at_orig_sr,
                       s._orig_samplerate, s._samplerate)

Read(op, value, s) ==
    /\ Exists(Self)
    /\ Becomes(s)
    /\ ret' = [op |-> op, raised |-> "", value |-> value]
    /\ UNCHANGED <<frames, child, args, entered>>

(* s.starts_ends *)
ReadStartsEnds == Read("starts_ends", View(Self), AfterRead(Self))

(* s.max_end *)
ReadMaxEnd == Read("max_end", MaxEndOf(Self), AfterRead(Self))

(* s.min_start *)
ReadMinStart == Read("min_start", MinStartOf(Self), Self)

(* list(s): __iter__ zips self.starts_ends with self.labels *)
Iterate ==
    Read("__iter__",
         [i \in 1 .. Len(labels) |-> <<View(Self)[i], labels[i]>>],
         AfterRead(Self))

-----------------------------------------------------------------------------
(* np.round(x, decimals), np.unique, np.searchsorted *)

rounded == 10       \* labels_at's default for its parameter rounded

(* r / d written to k decimal places: the digits and the remainder *)
RECURSIVE LongDiv(_, _, _)
LongDiv(r, d, k) ==
    IF k = 0 THEN <<<<>>, r>>
    ELSE LET rest == LongDiv((r * 10) % d, d, k - 1)
         IN  <<<<(r * 10) \div d>> \o rest[1], rest[2]>>

(* one unit more in the last place, carried *)
RECURSIVE Incr(_, _)
Incr(digits, pos) ==
    IF pos = 1 THEN [digits EXCEPT ![1] = @ + 1]
    ELSE IF digits[pos] = 9
         THEN Incr([digits EXCEPT ![pos] = 0], pos - 1)
         ELSE [digits EXCEPT ![pos] = @ + 1]

(* np.round: x rounded half-to-even to the given decimals, as the tuple    *)
(* <<floor, d1, .., dk>> of its integer part and its decimal digits        *)
RoundRational(x, decimals) ==
    LET q == x[1] \div x[2]
        ld == LongDiv(x[1] % x[2], x[2], decimals)
        digits == <<q>> \o ld[1]
        last == digits[Len(digits)]
        up == 2 * ld[2] > x[2] \/ (2 * ld[2] = x[2] /\ last % 2 = 1)
    IN  IF up THEN Incr(digits, Len(digits)) ELSE digits

(* A float written out in decimal: <<floor, d1, .., dk>> with k =          *)
(* DecimalPlaces digits after the point, for a query time too close to a   *)
(* boundary to be a ratio of two small integers.                           *)
DecimalPlaces == 14

IsDecimal(x) == Len(x) = DecimalPlaces + 1

(* floor.digits, written out to DecimalPlaces digits *)
Decimal(floor, digits) ==
    [i \in 1 .. DecimalPlaces + 1 |->
        IF i = 1 THEN floor ELSE IF i - 1 <= Len(digits) THEN digits[i - 1] ELSE 0]

(* np.round of a decimal: half-to-even on the digits after `decimals` *)
RoundDecimal(x, decimals) ==
    LET kept == SubSeq(x, 1, decimals + 1)
        next == x[decimals + 2]
        more == \E i \in decimals + 3 .. Len(x) : x[i] # 0
        up == next > 5 \/ (next = 5 /\ (more \/ kept[Len(kept)] % 2 = 1))
    IN  IF up THEN Incr(kept, Len(kept)) ELSE kept

Round(x, decimals) ==
    IF IsDecimal(x) THEN RoundDecimal(x, decimals) ELSE RoundRational(x, decimals)

(* x * k for a decimal x and an int k > 0 *)
RECURSIVE DecimalTimesAt(_, _, _, _)
DecimalTimesAt(x, k, i, carry) ==
    IF i = 1 THEN [x EXCEPT ![1] = x[1] * k + carry]
    ELSE DecimalTimesAt([x EXCEPT ![i] = (x[i] * k + carry) % 10], k, i - 1,
                        (x[i] * k + carry) \div 10)

DecimalTimes(x, k) == DecimalTimesAt(x, k, Len(x), 0)

(* x / m for a decimal x and an int m > 0, to DecimalPlaces digits *)
RECURSIVE DecimalOverAt(_, _, _, _)
DecimalOverAt(x, m, i, rem) ==
    IF i > Len(x) THEN x
    ELSE DecimalOverAt([x EXCEPT ![i] = (rem * 10 + x[i]) \div m], m, i + 1,
                       (rem * 10 + x[i]) % m)

DecimalOver(x, m) == DecimalOverAt([x EXCEPT ![1] = x[1] \div m], m, 2, x[1] % m)

(* _convert_samplerate of a query time, rational or decimal *)
ConvertEnd(x, from_samplerate, to_samplerate) ==
    IF ~IsDecimal(x) THEN _convert_samplerate(x, from_samplerate, to_samplerate)
    ELSE IF to_samplerate = from_samplerate THEN x
    ELSE IF to_samplerate > from_samplerate /\ to_samplerate % from_samplerate = 0
    THEN DecimalTimes(x, to_samplerate \div from_samplerate)
    ELSE DecimalOver(DecimalTimes(x, to_samplerate), from_samplerate)

ConvertEnds(ends, from_samplerate, to_samplerate) ==
    [k \in 1 .. Len(ends) |-> ConvertEnd(ends[k], from_samplerate, to_samplerate)]

(* a < b for two tuples Round made with the same decimals *)
RECURSIVE DigitsLt(_, _, _)
DigitsLt(a, b, i) ==
    IF i > Len(a) THEN FALSE
    ELSE IF a[i] # b[i] THEN a[i] < b[i]
    ELSE DigitsLt(a, b, i + 1)

(* lines 293-296: an array is rounded unless it and the other one hold     *)
(* integers (exact); an integer n stays <<n>>                              *)
RoundAll(a, exact) ==
    [i \in 1 .. Len(a) |-> IF exact THEN <<a[i][1]>> ELSE Round(a[i], rounded)]

SearchSortedRight(bins, v) ==
    Cardinality({i \in 1 .. Len(bins) : ~DigitsLt(v, bins[i], 1)})

(* np.searchsorted(bins, v, side='left') on the sorted bins: how many bins *)
(* are below v                                                             *)
SearchSorted(bins, v) ==
    Cardinality({i \in 1 .. Len(bins) : DigitsLt(bins[i], v, 1)})

(* the values of a set, ascending *)
RECURSIVE SortedSeq(_)
SortedSeq(S) ==
    IF S = {} THEN <<>>
    ELSE LET m == CHOOSE x \in S : \A y \in S : RLe(x, y)
         IN  <<m>> \o SortedSeq(S \ {m})

RECURSIVE SortedInts(_)
SortedInts(S) ==
    IF S = {} THEN <<>>
    ELSE LET m == CHOOSE x \in S : \A y \in S : x <= y
         IN  <<m>> \o SortedInts(S \ {m})

IndexIn(seq, v) == CHOOSE i \in 1 .. Len(seq) : seq[i] = v

AllIntegral(seq) == \A i \in 1 .. Len(seq) : IsIntegral(seq[i])

-----------------------------------------------------------------------------
(* SequenceLabels._flattened_indices(return_bins=True) on se = the         *)
(* starts_ends read: the bins and, per bin, the indices of the segments on *)
(* it.  Indices count from 1.                                              *)

RECURSIVE IndicesOn(_, _, _, _)
IndicesOn(sorting_indices, i, j, acc) ==
    IF j > Len(sorting_indices) THEN acc
    ELSE IndicesOn(sorting_indices, i, j + 1,
                   IF sorting_indices[j][1] <= i /\ i < sorting_indices[j][2]
                   THEN Append(acc, j) ELSE acc)

FlattenAlwaysFlat(se) ==
    [bins |-> [i \in 1 .. Len(se) + 1 |->
                  IF i <= Len(se) THEN se[i][1] ELSE se[Len(se)][2]],
     labels_indices |-> [i \in 1 .. Len(se) |-> <<i>>]]

TaggedAtStartOnly(bins, sorting_indices) ==
    [bins |-> bins,
     labels_indices |->
         [i \in 1 .. Len(bins) - 1 |->
             SortedInts({j \in 1 .. Len(sorting_indices) :
                           sorting_indices[j][1] = i})]]

(* lines 252-259, for the bins and sorting_indices np.unique returned *)
Tagged(bins, sorting_indices) ==
    [bins |-> bins,
     labels_indices |->
         [i \in 1 .. Len(bins) - 1 |-> IndicesOn(sorting_indices, i, 1, <<>>)]]

(* line 250: np.unique(se, return_inverse=True), the inverse un-flattened *)
InverseIn(bins, se) ==
    [j \in 1 .. Len(se) |-> <<IndexIn(bins, se[j][1]), IndexIn(bins, se[j][2])>>]

NotFlat(bins, se) == Tagged(bins, InverseIn(bins, se))

_flattened_indices(se) ==
    IF \E i \in 1 .. Len(se) - 1 : se[i + 1][1] # se[i][2]
    THEN NotFlat(SortedSeq({se[j][c] : j \in 1 .. Len(se), c \in 1 .. 2}), se)
    ELSE [bins |-> [i \in 1 .. Len(se) + 1 |->
                       IF i <= Len(se) THEN se[i][1] ELSE se[Len(se)][2]],
          labels_indices |-> [i \in 1 .. Len(se) |-> <<i>>]]

-----------------------------------------------------------------------------
(* labels_at.  Each returns [raised, self, value]: what was raised, the    *)
(* instance afterwards, and the labels returned.  A tuple of labels is a   *)
(* sequence; default_label () is <<>>.                                     *)

LabelsAtKeepsRate(s, frame) == s

(* line 290 / 392: leaving the with-block inside labels_at *)
labels_at_exit(s, frame) == samplerate_as_exit(s, frame)

BinIdxRight(bins, ends) == [k \in 1 .. Len(ends) |-> SearchSortedRight(bins, ends[k])]

(* lines 293-301 / 396-404: bin_idx, for the bins and the ends given *)
BinIdxOf(bins, ends) == [k \in 1 .. Len(ends) |-> SearchSorted(bins, ends[k])]

BinIdx(bins, ends, exact) == BinIdxOf(RoundAll(bins, exact), RoundAll(ends, exact))

(* lines 306-317: the labels of each distinct bin index *)
UniqueResLabels(l, unique_bin_idx, labels_idx, nbins, default_label) ==
    [i \in 1 .. Len(unique_bin_idx) |->
        IF unique_bin_idx[i] # 0 /\ unique_bin_idx[i] # nbins
        THEN IF Len(labels_idx[unique_bin_idx[i]]) >= 1
             THEN Take(l, labels_idx[unique_bin_idx[i]])
             ELSE default_label
        ELSE default_label]

(* line 304: the inverse np.unique(bin_idx, return_inverse=True) returns *)
InverseOf(unique_bin_idx, bin_idx) ==
    [k \in 1 .. Len(bin_idx) |-> IndexIn(unique_bin_idx, bin_idx[k])]

(* line 319: unique_res_labels[bin_idx, ...] *)
Broadcast(unique_res_labels, inverse) ==
    [k \in 1 .. Len(inverse) |-> unique_res_labels[inverse[k]]]

LookUp(l, fi, bin_idx, unique_bin_idx, default_label) ==
    Broadcast(UniqueResLabels(l, unique_bin_idx, fi.labels_indices, Len(fi.bins),
                              default_label),
              InverseOf(unique_bin_idx, bin_idx))

LookUpBins(l, fi, bin_idx, default_label) ==
    LookUp(l, fi, bin_idx, SortedInts(Range(bin_idx)), default_label)

(* lines 291-319, with the with-block of line 290 entered *)
LabelsAtInside(inside, fi, frame, ends, default_label) ==
    [raised |-> "",
     self |-> labels_at_exit(inside, frame),
     value |-> LookUpBins(inside.labels, fi,
                          BinIdx(fi.bins, ends, AllIntegral(ends) /\ AllIntegral(fi.bins)),
                          default_label)]

LabelsAtEntered(inside, frame, ends, default_label) ==
    LabelsAtInside(inside, _flattened_indices(View(inside)), frame, ends, default_label)

LabelsAtAfter(e, ends, default_label) ==
    IF e.raised # ""
    THEN [raised |-> e.raised, self |-> e.self]
    ELSE LabelsAtEntered(AfterRead(e.self), e.frame, ends, default_label)

LabelsAtIgnoresRate(s, ends, samplerate, default_label) ==
    LabelsAtAfter(samplerate_as_enter(s, None), ends, default_label)

SequenceLabels_labels_at(s, ends, samplerate, default_label) ==
    LabelsAtAfter(samplerate_as_enter(s, samplerate), ends, default_label)

OutsideError == "KeyError: Some ends are outside the segments"

(* A default_label handed to ContiguousSequenceLabels.labels_at: a string, *)
(* or a number of Python type int or float.  The labels of the model are   *)
(* ints, so res.dtype is int.                                              *)
Str(s) == [type |-> "str", s |-> s, n |-> 0]
Num(type, n) == [type |-> type, s |-> "", n |-> n]
LabelsDtype == "int"

(* lines 413-418: a second with-block, left by the raise *)
RaiseOutside(e2) ==
    [raised |-> OutsideError, self |-> labels_at_exit(e2.self, e2.frame)]

FilledZeros(l, bin_idx, nbins, default_label) ==
    [k \in 1 .. Len(bin_idx) |->
        IF bin_idx[k] = 0 \/ bin_idx[k] = nbins THEN 0 ELSE l[bin_idx[k]]]

(* lines 420-449 *)
Filled(l, bin_idx, nbins, default_label) ==
    [k \in 1 .. Len(bin_idx) |->
        IF bin_idx[k] = 0 \/ bin_idx[k] = nbins
        THEN IF default_label = Str("zeros") THEN 0         \* lines 426-428
             ELSE IF default_label = Str("ones") THEN 1     \* lines 429-430
             ELSE IF default_label.type = LabelsDtype       \* lines 431-440
             THEN default_label.n
             ELSE IF default_label.type = "str"             \* lines 441-447
             THEN default_label.s
             ELSE default_label.n
        ELSE l[bin_idx[k]]]

ContiguousNeverRaises(after, samplerate, bin_idx, nbins, default_label) ==
    [raised |-> "", self |-> after,
     value |-> FilledZeros(after.labels, bin_idx, nbins, default_label)]

(* lines 406-452, for the bin_idx found *)
ContiguousLookUp(after, samplerate, bin_idx, nbins, default_label) ==
    IF \E k \in 1 .. Len(bin_idx) : bin_idx[k] = 0 \/ bin_idx[k] = nbins
    THEN IF default_label = Str("raise")
         THEN RaiseOutside(samplerate_as_enter(after, samplerate))
         ELSE [raised |-> "", self |-> after,
               value |-> Filled(after.labels, bin_idx, nbins, default_label)]
    ELSE [raised |-> "", self |-> after,
          value |-> [k \in 1 .. Len(bin_idx) |-> after.labels[bin_idx[k]]]]

StartsWithoutLastEnd(se) == [i \in 1 .. Len(se) |-> se[i][1]]

(* line 394: np.append(se[:, 0], se[-1, -1]) *)
StartsAndLastEnd(se) ==
    [i \in 1 .. Len(se) + 1 |-> IF i <= Len(se) THEN se[i][1] ELSE se[Len(se)][2]]

ContiguousInside(inside, bins, frame, samplerate, ends, default_label) ==
    ContiguousLookUp(labels_at_exit(inside, frame), samplerate,
                     BinIdx(bins, ends, AllIntegral(ends) /\ AllIntegral(bins)),
                     Len(bins), default_label)

ContiguousEntered(inside, frame, samplerate, ends, default_label) ==
    ContiguousInside(inside, StartsAndLastEnd(View(inside)), frame, samplerate, ends,
                     default_label)

ContiguousAfter(e, samplerate, ends, default_label) ==
    IF e.raised # ""
    THEN [raised |-> e.raised, self |-> e.self]
    ELSE ContiguousEntered(AfterRead(e.self), e.frame, samplerate, ends, default_label)

ContiguousSequenceLabels_labels_at(s, ends, samplerate, default_label) ==
    ContiguousAfter(samplerate_as_enter(s, samplerate), samplerate, ends, default_label)

-----------------------------------------------------------------------------
(* s.labels_at(ends, samplerate, default_label) *)

LabelsAtOf(s, ends, samplerate, default_label) ==
    IF s.cls = "ContiguousSequenceLabels"
    THEN ContiguousSequenceLabels_labels_at(s, ends, samplerate, default_label)
    ELSE SequenceLabels_labels_at(s, ends, samplerate, default_label)

DefaultLabels(klass) ==
    IF klass = "ContiguousSequenceLabels"
    THEN {Str("raise"), Str("zeros")}
    ELSE {<<>>}

Returns(r, ends, samplerate, default_label) ==
    /\ Becomes(r.self)
    /\ ret' = [op |-> "labels_at", raised |-> r.raised, ends |-> ends,
               samplerate |-> samplerate, default_label |-> default_label,
               value |-> IF r.raised = "" THEN r.value ELSE <<>>]

LabelsAtCall(Ends, Rates, Defaults) ==
    /\ Exists(Self)
    /\ \E ends \in Ends, samplerate \in Rates, default_label \in Defaults :
          Returns(LabelsAtOf(Self, ends, samplerate, default_label),
                  ends, samplerate, default_label)
    /\ UNCHANGED <<frames, child, args, entered>>

-----------------------------------------------------------------------------
(* The instances of the test module: base_contiguous_small_seqdata and     *)
(* base_noncontiguous_small_seqdata, at samplerate 1 and, scaled as        *)
(* init_small_seqdata scales them, at samplerate 3                         *)

ContiguousSmall ==
    << <<R(0), R(1)>>, <<R(1), R(3)>>, <<R(3), Rat(9, 2)>>, <<Rat(9, 2), R(6)>> >>
NonContiguousSmall ==
    << <<R(0), R(1)>>, <<R(1), Rat(24, 5)>>, <<R(3), R(5)>>, <<Rat(9, 2), R(6)>> >>
SmallLabels == <<1, 0, 2, 1>>

Scaled(se, sr) == LET m(x) == RMul(x, R(sr)) IN MapPairs(m, se)

Fixtures ==
    {[klass |-> "ContiguousSequenceLabels", starts_ends |-> ContiguousSmall,
      labels |-> SmallLabels, samplerate |-> 1],
     [klass |-> "SequenceLabels", starts_ends |-> Scaled(NonContiguousSmall, 3),
      labels |-> SmallLabels, samplerate |-> 3]}

InitFrom(Inputs) ==
    \E a \in Inputs :
        /\ Is(New(a.klass, a.starts_ends, a.labels, a.samplerate))
        /\ Exists(Self)
        /\ args = a
        /\ frames = <<>>
        /\ child = NoInstance
        /\ ret = [op |-> "__init__", raised |-> ""]
        /\ entered = <<>>

(* One instance of the test module, just constructed *)
Init == InitFrom(Fixtures)

FixtureEnds == {<<R(1), Rat(24, 5), R(0 - 1)>>}

LabelsAt == LabelsAtCall(FixtureEnds, {None, Some(3), Some(0)}, DefaultLabels(cls))

Next ==
    \/ SamplerateAs
    \/ MinStartAs
    \/ ExitScope
    \/ RaiseInBody
    \/ ReadStartsEnds
    \/ ReadMaxEnd
    \/ ReadMinStart
    \/ Iterate
    \/ LabelsAt

(* Nested with-blocks, property reads and queries on one instance *)
Spec == Init /\ [][Next]_vars

-----------------------------------------------------------------------------
(* Python numbers.  _convert_samplerate on an int or a float, computed as  *)
(* CPython computes it: an int is exact, a float is an IEEE-754 binary64   *)
(* value 1.f * 2^exp held as its 53 mantissa bits, most significant first, *)
(* and every float operation rounds to nearest, ties to even.  (The        *)
(* module imports division from __future__: int / int is a float.)         *)

MantBits == 53

RECURSIVE Bits(_)
Bits(n) == IF n = 0 THEN <<>> ELSE Append(Bits(n \div 2), n % 2)

Zeros(k) == [i \in 1 .. k |-> 0]

(* the next float up: one unit in the last place more *)
RoundUp(mant, exp) ==
    IF \A i \in 1 .. Len(mant) : mant[i] = 1
    THEN [mant |-> <<1>> \o Zeros(Len(mant) - 1), exp |-> exp + 1]
    ELSE [mant |-> [j \in 1 .. Len(mant) |->
                      IF \E i \in j + 1 .. Len(mant) : mant[i] = 0 THEN mant[j]
                      ELSE 1 - mant[j]],
          exp |-> exp]

(* the bits p of an exact positive value whose leading bit weighs 2^exp,   *)
(* rounded to MantBits bits                                                *)
RoundBits(p, exp) ==
    IF Len(p) <= MantBits
    THEN [mant |-> p \o Zeros(MantBits - Len(p)), exp |-> exp]
    ELSE IF p[MantBits + 1] = 1
            /\ (p[MantBits] = 1 \/ \E i \in MantBits + 2 .. Len(p) : p[i] = 1)
    THEN RoundUp(SubSeq(p, 1, MantBits), exp)
    ELSE [mant |-> SubSeq(p, 1, MantBits), exp |-> exp]

(* float(n), n > 0 *)
FloatOfInt(n) == RoundBits(Bits(n), Len(Bits(n)) - 1)

(* Products are computed on limbs of 11 bits, so that every intermediate    *)
(* number stays below 2^31.                                                *)
Pow2 == <<1, 2, 4, 8, 16, 32, 64, 128, 256, 512, 1024>>

(* bit p of the mantissa m, counted from the least significant bit, from 0 *)
BitAt(m, p) == IF p < Len(m) THEN m[Len(m) - p] ELSE 0

LimbBit(m, k, j) == BitAt(m, 11 * k + j) * Pow2[j + 1]

LimbSum(m, k) ==
    LimbBit(m, k, 0) + LimbBit(m, k, 1) + LimbBit(m, k, 2) + LimbBit(m, k, 3)
        + LimbBit(m, k, 4) + LimbBit(m, k, 5) + LimbBit(m, k, 6) + LimbBit(m, k, 7)
        + LimbBit(m, k, 8) + LimbBit(m, k, 9) + LimbBit(m, k, 10)

(* the five limbs of a mantissa, least significant first, from 0 *)
Limbs(m) == [k \in 0 .. 4 |-> LimbSum(m, k)]

Term(a, b, i, n) == IF n - i >= 0 /\ n - i <= 4 THEN a[i] * b[n - i] ELSE 0

(* the sum of the products of limbs that weigh 2048^n *)
Coef(a, b, n) ==
    Term(a, b, 0, n) + Term(a, b, 1, n) + Term(a, b, 2, n) + Term(a, b, 3, n)
        + Term(a, b, 4, n)

(* the ten limbs of the product, least significant first, from 1 *)
RECURSIVE Carried(_, _, _, _, _)
Carried(a, b, n, carry, acc) ==
    IF carry < 0 \/ Len(acc) < 0 \/ n > 9 THEN acc
    ELSE Carried(a, b, n + 1, (Coef(a, b, n) + carry) \div 2048,
                 Append(acc, (Coef(a, b, n) + carry) % 2048))

ProductBit(d, p) == (d[(p \div 11) + 1] \div Pow2[(p % 11) + 1]) % 2

(* the bits of the product, most significant first: 105 or 106 of them *)
ProductBits(d, len) == [i \in 1 .. len |-> ProductBit(d, len - i)]

ProductOf(d) == ProductBits(d, IF ProductBit(d, 105) = 1 THEN 106 ELSE 105)

(* a * b, for two mantissas of MantBits bits *)
MulBits(a, b) == ProductOf(Carried(Limbs(a), Limbs(b), 0, 0, <<>>))

MulRounded(p, exp) == RoundBits(p, exp + Len(p) - (2 * MantBits - 1))

(* float * float *)
FloatMul(f, g) == MulRounded(MulBits(f.mant, g.mant), f.exp + g.exp)

(* a / b scaled so that b <= a < 2 * b, with the exponent of the quotient *)
RECURSIVE Normalised(_, _, _)
Normalised(a, b, exp) ==
    IF a < b THEN Normalised(2 * a, b, exp - 1)
    ELSE IF a >= 2 * b THEN Normalised(a, 2 * b, exp + 1)
    ELSE <<a, b, exp>>

(* k more limbs of 13 bits of the quotient by long division, for          *)
(* b < 2^18: <<limbs, remainder>>                                          *)
RECURSIVE QuotientLimbs(_, _, _, _)
QuotientLimbs(rem, b, k, acc) ==
    IF rem < 0 \/ Len(acc) < 0 \/ k = 0 THEN <<acc, rem>>
    ELSE QuotientLimbs((rem * 8192) % b, b, k - 1, Append(acc, (rem * 8192) \div b))

(* the leading 1 and the 52 bits of the four limbs: <<bits, remainder>> *)
QuotientBits(ql) ==
    <<[i \in 1 .. MantBits |->
          IF i = 1 THEN 1
          ELSE (ql[1][((i - 2) \div 13) + 1] \div 2 ^ (12 - ((i - 2) % 13))) % 2],
      ql[2]>>

QuotientRounded(qr, b, exp) ==
    IF 2 * qr[2] > b \/ (2 * qr[2] = b /\ qr[1][MantBits] = 1)
    THEN RoundUp(qr[1], exp)
    ELSE [mant |-> qr[1], exp |-> exp]

DivNormalised(n) ==
    QuotientRounded(QuotientBits(QuotientLimbs(n[1] - n[2], n[2], 4, <<>>)), n[2], n[3])

(* a / b for ints a, b > 0 *)
TrueDiv(a, b) == DivNormalised(Normalised(a, b, 0))

PyInt(n) == [type |-> "int", n |-> n, mant |-> <<>>, exp |-> 0]
PyFloat(f) == [type |-> "float", n |-> 0, mant |-> f.mant, exp |-> f.exp]

(* the float a positive number is or converts to *)
AsFloat(v) == IF v.type = "int" THEN FloatOfInt(v.n) ELSE [mant |-> v.mant, exp |-> v.exp]

(* v * w for positive numbers *)
PyMul(v, w) ==
    IF v.type = "int" /\ w.type = "int"
    THEN PyInt(v.n * w.n)
    ELSE PyFloat(FloatMul(AsFloat(v), AsFloat(w)))

ConvertError == "ValueError: samplerates <=0 not supported"

(* SequenceLabels._convert_samplerate(value, from_samplerate,              *)
(* to_samplerate) for a number: what it raises and what it returns         *)
ConvertNumber(value, from_samplerate, to_samplerate) ==
    IF to_samplerate <= 0 \/ from_samplerate <= 0
    THEN [raised |-> ConvertError, value |-> PyInt(0)]
    ELSE IF to_samplerate = from_samplerate
    THEN [raised |-> "", value |-> value]
    ELSE IF to_samplerate > from_samplerate /\ to_samplerate % from_samplerate = 0
    THEN [raised |-> "", value |-> PyMul(value, PyInt(to_samplerate \div from_samplerate))]
    ELSE [raised |-> "",
          value |-> PyMul(value, PyFloat(TrueDiv(to_samplerate, from_samplerate)))]

ConvertValues == 1 .. 3
ConvertRates == {0 - 1, 0, 1, 2, 3, 49, 98}

InitConvert ==
    /\ Is(NoInstance)
    /\ frames = <<>>
    /\ child = NoInstance
    /\ entered = <<>>
    /\ ret = NoCall
    /\ \E x \in ConvertValues, r1 \in ConvertRates, r2 \in ConvertRates :
          args = [value |-> PyInt(x), from_samplerate |-> r1, to_samplerate |-> r2]

Converted(op, r) ==
    /\ ret' = [op |-> op, raised |-> r.raised, value |-> r.value]
    /\ UNCHANGED <<cls, _starts_ends, labels, _orig_samplerate, _samplerate,
                   _minstart_at_orig_sr, frames, child, args, entered>>

(* y = _convert_samplerate(x, r1, r2) *)
Convert ==
    /\ ret = NoCall
    /\ Converted("_convert_samplerate",
                 ConvertNumber(args.value, args.from_samplerate, args.to_samplerate))

(* _convert_samplerate(y, r2, r1) *)
ConvertBack ==
    /\ ret.op = "_convert_samplerate" /\ ret.raised = ""
    /\ Converted("round trip",
                 ConvertNumber(ret.value, args.to_samplerate, args.from_samplerate))

NextConvert == Convert \/ ConvertBack

SpecConvert == InitConvert /\ [][NextConvert]_vars

-----------------------------------------------------------------------------
(* The anchor as the Python number it is.  min_start_as converts new_start *)
(* to the original samplerate and the property min_start converts it back, *)
(* both with _convert_samplerate on one number.                            *)

AnchorSegments == << <<R(1), R(2)>>, <<R(2), R(3)>> >>
AnchorOrigRates == {1, 2, 49}
AnchorStarts == 1 .. 3
AnchorRateArgs == {None, Some(0), Some(1), Some(49)}

(* SequenceLabels(AnchorSegments, labels, samplerate): line 72 takes the   *)
(* anchor from the float array                                             *)
InitAnchor ==
    /\ \E samplerate \in AnchorOrigRates :
          /\ _orig_samplerate = samplerate
          /\ _samplerate = samplerate
          /\ args = [klass |-> "SequenceLabels", starts_ends |-> AnchorSegments,
                     labels |-> <<1, 0>>, samplerate |-> samplerate]
    /\ cls = "SequenceLabels"
    /\ _starts_ends = AnchorSegments
    /\ labels = <<1, 0>>
    /\ _minstart_at_orig_sr = PyFloat(FloatOfInt(1))
    /\ frames = <<>>
    /\ child = NoInstance
    /\ ret = [op |-> "__init__", raised |-> ""]
    /\ entered = <<>>

(* lines 216-228, for a number new_start *)
min_start_as_number(s, new_start, samplerate) ==
    LET old_start == s._minstart_at_orig_sr
        e == samplerate_as_enter(s, samplerate)
    IN  IF e.raised # ""
        THEN e
        ELSE [raised |-> "",
              self |-> [e.self EXCEPT !._minstart_at_orig_sr =
                            ConvertNumber(new_start, e.self._samplerate,
                                          e.self._orig_samplerate).value],
              frame |-> [fn |-> "min_start_as", old_start |-> old_start,
                         old_sr |-> e.frame.old_sr]]

AnchorEntered(e, new_start, samplerate) ==
    IF e.raised # ""
    THEN /\ Becomes(e.self)
         /\ ret' = [op |-> "min_start_as", raised |-> e.raised]
         /\ UNCHANGED <<frames, entered>>
    ELSE /\ Becomes(e.self)
         /\ frames' = Append(frames, e.frame)
         /\ entered' = Append(entered, [new_start |-> new_start,
                                        samplerate |-> samplerate])
         /\ ret' = [op |-> "min_start_as", raised |-> ""]

(* with s.min_start_as(new_start, samplerate): *)
AnchorMinStartAs ==
    /\ Len(frames) < 2
    /\ \E new_start \in AnchorStarts, samplerate \in AnchorRateArgs :
          AnchorEntered(min_start_as_number(Self, PyInt(new_start), samplerate),
                        new_start, samplerate)
    /\ UNCHANGED <<child, args>>

(* s.min_start *)
AnchorReadMinStart ==
    /\ Becomes(Self)
    /\ ret' = [op |-> "min_start", raised |-> "",
               value |-> ConvertNumber(_minstart_at_orig_sr, _orig_samplerate,
                                       _samplerate).value]
    /\ UNCHANGED <<frames, child, args, entered>>

NextAnchor ==
    \/ AnchorMinStartAs
    \/ AnchorReadMinStart
    \/ ExitScope

SpecAnchor == InitAnchor /\ [][NextAnchor]_vars

-----------------------------------------------------------------------------
(* One index or slice of an instance of the test module, taken inside or   *)
(* outside with-blocks, after starts_ends was read there or not            *)

NoChild == child = NoInstance

SliceSamplerateAs == NoChild /\ Len(frames) < 2 /\ SamplerateAs

SliceMinStartAs == NoChild /\ Len(frames) < 2 /\ MinStartAs

SliceExitScope == NoChild /\ ExitScope

SliceReadStartsEnds == NoChild /\ ReadStartsEnds

SliceGetItem == NoChild /\ GetItem

NextSlice ==
    \/ SliceSamplerateAs
    \/ SliceMinStartAs
    \/ SliceExitScope
    \/ SliceReadStartsEnds
    \/ SliceGetItem

SpecSlice == Init /\ [][NextSlice]_vars

-----------------------------------------------------------------------------
(* Queries on a SequenceLabels with any valid segments, overlapping,       *)
(* nested or apart, and on a ContiguousSequenceLabels with any segments it *)
(* accepts, alone or inside one with-block                                 *)

QueryRates == {1, 2}

ValidRows == {r \in InputRows : RLt(r[1], r[2])}

QueryInputs ==
    UNION {{[klass |-> klass, starts_ends |-> se,
             labels |-> SubSeq(LabelOf, 1, n), samplerate |-> sr] :
                klass \in Classes, se \in [1 .. n -> ValidRows],
                sr \in QueryRates} : n \in 1 .. MaxLen}
        \cup {[klass |-> "SequenceLabels", starts_ends |-> NonContiguousSmall,
               labels |-> SmallLabels, samplerate |-> 1],
              [klass |-> "ContiguousSequenceLabels", starts_ends |-> ContiguousSmall,
               labels |-> SmallLabels, samplerate |-> 1]}

InitQuery == InitFrom(QueryInputs)

(* the ends of labels_at_secs_nonconti in the test module, and every      *)
(* multiple of 1/2 from -1/2 to 6                                          *)
ExampleEnds == <<Rat(1, 2), R(1), Rat(17, 5), Rat(24, 5), Rat(11, 2), R(6)>>
GridEnds == [k \in 1 .. 14 |-> Rat(k - 2, 2)]

(* a default_label that no label of an instance equals *)
QueryDefault == <<0 - 1>>

(* the default_label of a query: for ContiguousSequenceLabels 'raise', the *)
(* two named fills, an int, and a float, which is not of the labels' dtype *)
QueryDefaults(klass) ==
    IF klass = "ContiguousSequenceLabels"
    THEN {Str("raise"), Str("zeros"), Str("ones"), Num("int", 7), Num("float", 8)}
    ELSE {QueryDefault}

(* the ends of labels_at_secs of base_contiguous_small_seqdata *)
ContiguousExampleEnds ==
    <<Rat(1, 2), R(1), Rat(7, 5), Rat(19, 5), Rat(11, 2), Rat(95999, 16000), R(6)>>

QueryEnds(klass) ==
    IF klass = "ContiguousSequenceLabels"
    THEN {ContiguousExampleEnds, GridEnds, SubSeq(GridEnds, 3, 4)}
    ELSE {ExampleEnds, GridEnds}

(* one query, on the instance as constructed or inside the block entered *)
QueryLabelsAt ==
    /\ ret.op # "labels_at" /\ ret.raised = ""
    /\ LabelsAtCall(QueryEnds(cls), {None, Some(2)}, QueryDefaults(cls))

(* s._flattened_indices(return_bins=True), which reads s.starts_ends *)
QueryFlatten ==
    /\ ret.op \notin {"labels_at", "_flattened_indices"} /\ ret.raised = ""
    /\ Exists(Self)
    /\ Becomes(AfterRead(Self))
    /\ ret' = [op |-> "_flattened_indices", raised |-> "",
               value |-> _flattened_indices(View(Self))]
    /\ UNCHANGED <<frames, child, args, entered>>

QuerySamplerateAs == frames = <<>> /\ SamplerateAs

QueryMinStartAs == frames = <<>> /\ MinStartAs

NextQuery ==
    \/ QuerySamplerateAs
    \/ QueryMinStartAs
    \/ QueryLabelsAt
    \/ QueryFlatten

SpecQuery == InitQuery /\ [][NextQuery]_vars

-----------------------------------------------------------------------------
(* max_end of the same instances, read at the original samplerate or       *)
(* inside one samplerate_as block                                          *)

NextMaxEnd ==
    \/ QuerySamplerateAs
    \/ ExitScope
    \/ ReadMaxEnd

SpecMaxEnd == InitQuery /\ [][NextMaxEnd]_vars

-----------------------------------------------------------------------------
(* One query given at a rate, then the same query converted to the         *)
(* original samplerate, on the instance as constructed or inside one       *)
(* samplerate_as block                                                     *)

(* 1.00000000007, 2.00000000007, 0.500000000035, 1.000000000035 and 1.5 *)
NearEnds ==
    << Decimal(1, <<0, 0, 0, 0, 0, 0, 0, 0, 0, 0, 7>>),
       Decimal(2, <<0, 0, 0, 0, 0, 0, 0, 0, 0, 0, 7>>),
       Decimal(0, <<5, 0, 0, 0, 0, 0, 0, 0, 0, 0, 3, 5>>),
       Decimal(1, <<0, 0, 0, 0, 0, 0, 0, 0, 0, 0, 3, 5>>),
       Decimal(1, <<5>>) >>

RateEnds == {GridEnds, NearEnds}

(* the instances of fewer than MaxLen segments, and the two of the test    *)
(* module                                                                  *)
RateInputs == {a \in QueryInputs : Len(a.starts_ends) # MaxLen}

InitRates == InitFrom(RateInputs)

(* s.labels_at(ends, samplerate, default_label) *)
RatesLabelsAt ==
    /\ ret.op \notin {"labels_at", "labels_at twice"} /\ ret.raised = ""
    /\ LabelsAtCall(RateEnds, {None, Some(1), Some(2)}, DefaultLabels(cls))

(* s.labels_at(s._convert_samplerate(ends, samplerate, s.orig_samplerate), *)
(*             s.orig_samplerate, default_label)                           *)
RatesLabelsAtOrig ==
    /\ ret.op = "labels_at" /\ ~IsNone(ret.samplerate)
    /\ LET r == LabelsAtOf(Self,
                           ConvertEnds(ret.ends, ret.samplerate[1], _orig_samplerate),
                           Some(_orig_samplerate), ret.default_label)
       IN  /\ Becomes(r.self)
           /\ ret' = [op |-> "labels_at twice", raised |-> ret.raised,
                      ends |-> ret.ends, samplerate |-> ret.samplerate,
                      default_label |-> ret.default_label, value |-> ret.value,
                      at_orig |-> [raised |-> r.raised,
                                   value |-> IF r.raised = "" THEN r.value ELSE <<>>]]
    /\ UNCHANGED <<frames, child, args, entered>>

RatesSamplerateAs == ret.op = "__init__" /\ QuerySamplerateAs

NextRates ==
    \/ RatesSamplerateAs
    \/ RatesLabelsAt
    \/ RatesLabelsAtOrig

SpecRates == InitRates /\ [][NextRates]_vars

-----------------------------------------------------------------------------
(* The same contiguous segments as a ContiguousSequenceLabels, s, and as a *)
(* SequenceLabels, held in child, and the same query put to both           *)

TwinInputs == {a \in QueryInputs : a.klass = "ContiguousSequenceLabels"}

(* a fill that no label of an instance equals *)
TwinDefaults == {Str("raise"), Num("int", 7)}

InitTwins ==
    /\ \E a \in TwinInputs :
          /\ Is(New(a.klass, a.starts_ends, a.labels, a.samplerate))
          /\ child = New("SequenceLabels", a.starts_ends, a.labels, a.samplerate)
          /\ args = a
    /\ Exists(Self)
    /\ frames = <<>>
    /\ ret = [op |-> "__init__", raised |-> ""]
    /\ entered = <<>>

(* s.labels_at(ends, samplerate, default_label) *)
TwinLabelsAt ==
    /\ ret.op = "__init__"
    /\ LabelsAtCall(QueryEnds(cls), {None, Some(2)}, TwinDefaults)

(* child.labels_at(ends, samplerate), with the arguments s was given *)
TwinBaseLabelsAt ==
    /\ ret.op = "labels_at"
    /\ LET r == SequenceLabels_labels_at(child, ret.ends, ret.samplerate, <<>>)
       IN  /\ child' = r.self
           /\ ret' = [op |-> "labels_at twice", raised |-> ret.raised,
                      ends |-> ret.ends, samplerate |-> ret.samplerate,
                      default_label |-> ret.default_label, value |-> ret.value,
                      base |-> r.value]
    /\ UNCHANGED <<cls, _starts_ends, labels, _orig_samplerate, _samplerate,
                   _minstart_at_orig_sr, frames, args, entered>>

NextTwins == TwinLabelsAt \/ TwinBaseLabelsAt

SpecTwins == InitTwins /\ [][NextTwins]_vars

-----------------------------------------------------------------------------
(* Claims about construction *)

BagOf(f) == [x \in Range(f) |-> Cardinality({i \in DOMAIN f : f[i] = x})]
Triples(se, l) == [i \in 1 .. Len(se) |-> <<se[i][1], se[i][2], l[i]>>]

SortedByStartThenEnd(se) ==
    \A i \in 1 .. Len(se) - 1 :
        \/ RLt(se[i][1], se[i + 1][1])
        \/ (se[i][1] = se[i + 1][1] /\ RLe(se[i][2], se[i + 1][2]))

(* C6: every constructed instance holds its segments sorted by start, ties *)
(* by end, and its (start, end, label) triples are, as a multiset, the     *)
(* triples it was constructed from; the same for an instance made by       *)
(* indexing, with respect to the rows selected.                            *)
C6_SortedPermutation ==
    /\ Exists(Self) =>
          /\ SortedByStartThenEnd(_starts_ends)
          /\ Len(labels) = Len(_starts_ends)
          /\ BagOf(Triples(_starts_ends, labels))
                 = BagOf(Triples(args.starts_ends, args.labels))
    /\ Exists(child) =>
          /\ SortedByStartThenEnd(child._starts_ends)
          /\ BagOf(Triples(child._starts_ends, child.labels))
                 = BagOf(Triples(Take(_starts_ends, ret.idx), Take(labels, ret.idx)))

(* three segments given out of order, two of them starting together with   *)
(* the longer one first                                                    *)
C6_Witness ==
    /\ Exists(Self)
    /\ Len(_starts_ends) = 3
    /\ \E i \in 1 .. 2 :
          /\ args.starts_ends[i][1] = args.starts_ends[i + 1][1]
          /\ RLt(args.starts_ends[i + 1][2], args.starts_ends[i][2])
    /\ RLt(args.starts_ends[3][1], args.starts_ends[1][1])
    /\ labels # args.labels

PositiveDurations(se) == \A i \in 1 .. Len(se) : RLt(se[i][1], se[i][2])

(* C7, as claimed: SequenceLabels(starts_ends, labels, rate) succeeds if   *)
(* and only if the lengths agree, rate > 0 and every end - start > 0.      *)
C7_SucceedsIff ==
    (ret.op = "__init__" /\ args.klass = "SequenceLabels") =>
        (Exists(Self) <=>
            /\ Len(args.starts_ends) = Len(args.labels)
            /\ args.samplerate > 0
            /\ PositiveDurations(args.starts_ends))

(* C7, the part the code keeps: a failed construction leaves no instance,  *)
(* and every instance there is has as many labels as segments, positive    *)
(* durations and a positive orig_samplerate.                               *)
C7_InstanceInvariant ==
    /\ (ret.op = "__init__" /\ ret.raised # "") => ~Exists(Self)
    /\ \A s \in {Self, child} :
          Exists(s) =>
              /\ Len(s._starts_ends) = Len(s.labels)
              /\ PositiveDurations(s._starts_ends)
              /\ s._orig_samplerate > 0

ContiguityError == "AssertionError: All ends should be the starts of the next segment"

HasBreak(se) == \E i \in 1 .. Len(se) - 1 : se[i][2] # se[i + 1][1]

(* C8: where SequenceLabels would accept the arguments,                    *)
(* ContiguousSequenceLabels raises the contiguity AssertionError exactly   *)
(* when two neighbours of the sorted segments do not touch, and otherwise  *)
(* succeeds with every segment and label kept; so every                    *)
(* ContiguousSequenceLabels there is, also one made by indexing, has       *)
(* neither a gap nor an overlap.                                           *)
C8_ContiguityEnforced ==
    /\ (ret.op = "__init__" /\ args.klass = "ContiguousSequenceLabels") =>
          LET base == SequenceLabels__init__(args.starts_ends, args.labels,
                                             args.samplerate)
          IN  Exists(base) =>
                /\ (ret.raised = ContiguityError) <=> HasBreak(base._starts_ends)
                /\ ~HasBreak(base._starts_ends) =>
                      /\ cls = "ContiguousSequenceLabels"
                      /\ _starts_ends = base._starts_ends
                      /\ labels = base.labels
    /\ \A s \in {Self, child} :
          s.cls = "ContiguousSequenceLabels" =>
              \A i \in 1 .. Len(s._starts_ends), j \in 1 .. Len(s._starts_ends) :
                  /\ (j = i + 1) => s._starts_ends[i][2] = s._starts_ends[j][1]
                  /\ (i < j) => RLe(s._starts_ends[i][2], s._starts_ends[j][1])

(* three segments given out of order that overlap once sorted: refused *)
C8_Witness ==
    /\ ret.op = "__init__"
    /\ ret.raised = ContiguityError
    /\ Len(args.starts_ends) = 3
    /\ ~SortedByStartThenEnd(args.starts_ends)
    /\ \E i \in 1 .. 3, j \in 1 .. 3 :
          /\ RLt(args.starts_ends[i][1], args.starts_ends[j][2])
          /\ RLt(args.starts_ends[j][1], args.starts_ends[i][1])

-----------------------------------------------------------------------------
(* Claims about the with-blocks *)

Depth == Len(entered)

(* the rate the innermost open block that was given one was given, and     *)
(* orig_samplerate when no open block was given one                        *)
RECURSIVE InnermostGiven(_, _)
InnermostGiven(e, n) ==
    IF n = 0 THEN _orig_samplerate
    ELSE IF IsNone(e[n].new_samplerate) THEN InnermostGiven(e, n - 1)
    ELSE e[n].new_samplerate[1]

(* the outermost of the blocks a step leaves *)
OutermostLeft == entered[Len(entered') + 1]

Leaves == Len(entered') < Len(entered)

C1_InnermostWins == _samplerate = InnermostGiven(entered, Depth)

C1_LeavingRestores ==
    /\ Leaves => _samplerate' = OutermostLeft.samplerate
    /\ (Leaves /\ Len(entered') = 0) => _samplerate' = _orig_samplerate
    /\ _orig_samplerate' = _orig_samplerate

(* C1: in every state samplerate is the rate given to the innermost open   *)
(* block; a step that leaves blocks, by their end or by an exception,      *)
(* puts samplerate back to what it was before the outermost of them was    *)
(* entered, which is orig_samplerate when no block stays open.             *)
C1_NestedRates == [](C1_InnermostWins) /\ [][C1_LeavingRestores]_vars

(* an exception has left the innermost of three samplerate_as blocks given *)
(* 2, 3 and 2: the rate is 3 again                                         *)
C1_Witness ==
    /\ ret.op = "__exit__" /\ ret.raised = "Exception"
    /\ Depth = 2
    /\ \A i \in 1 .. 2 : entered[i].fn = "samplerate_as"
    /\ entered[1].new_samplerate = Some(2)
    /\ entered[2].new_samplerate = Some(3)
    /\ _samplerate = 3
    /\ _orig_samplerate = 1

C2_Restored ==
    (Leaves /\ OutermostLeft.fn = "min_start_as") =>
        /\ MinStartOf(SelfAfter) = OutermostLeft.min_start
        /\ _samplerate' = OutermostLeft.samplerate

(* C2: a step that leaves a min_start_as block, by its end or by an        *)
(* exception, puts min_start and samplerate back to what the caller read   *)
(* before entering it.                                                     *)
C2_MinStartBlockRestores == [][C2_Restored]_vars

(* a min_start_as block nested in another block was left after             *)
(* starts_ends was read inside it: the stored array is still shifted       *)
C2_Witness ==
    /\ ret.op = "__exit__"
    /\ Depth >= 1
    /\ _starts_ends[1][1] # _minstart_at_orig_sr
    /\ _samplerate # _orig_samplerate
    /\ _minstart_at_orig_sr = args.starts_ends[1][1]

(* C3, as claimed: the stored boundaries are the sorted boundaries of the  *)
(* construction in every state.                                            *)
C3_StoredNeverModified ==
    Exists(Self) =>
        _starts_ends = SequenceLabels__init__(args.starts_ends, args.labels,
                                              args.samplerate)._starts_ends

AllNoneLeft ==
    \A i \in Len(entered') + 1 .. Len(entered) : IsNone(entered[i].new_samplerate)

C4_NoneKeeps ==
    /\ (Len(entered') = Len(entered) + 1 /\ IsNone(entered'[Len(entered')].new_samplerate))
           => _samplerate' = _samplerate
    /\ (Leaves /\ AllNoneLeft) => _samplerate' = _samplerate
    /\ (ret'.op = "labels_at" /\ ret'.raised = "" /\ IsNone(ret'.samplerate)) =>
           /\ _samplerate' = _samplerate
           /\ ret'.value = LabelsAtOf(Self, ret'.ends, Some(_samplerate),
                                      ret'.default_label).value

(* C4: entering a block with samplerate None, and leaving it, leave        *)
(* samplerate as it is; labels_at with samplerate None leaves it too and   *)
(* answers as labels_at given the current samplerate does.                 *)
C4_NoneKeepsEnclosingRate == [][C4_NoneKeeps]_vars

(* samplerate_as(None) is open inside samplerate_as(2), on an instance     *)
(* whose orig_samplerate is 1                                              *)
C4_Witness ==
    /\ Depth = 2
    /\ entered[1].new_samplerate = Some(2)
    /\ entered[2].fn = "samplerate_as" /\ IsNone(entered[2].new_samplerate)
    /\ _samplerate = 2
    /\ _orig_samplerate = 1

Failed == ret'.raised \in {RateError, OutsideError} /\ ret'.op # "__exit__"

C5_FailureChangesNothing ==
    Failed =>
        /\ _samplerate' = _samplerate
        /\ _minstart_at_orig_sr' = _minstart_at_orig_sr
        /\ _orig_samplerate' = _orig_samplerate
        /\ labels' = labels
        /\ View(SelfAfter) = View(Self)
        /\ MinStartOf(SelfAfter) = MinStartOf(Self)
        /\ frames' = frames

RateOf(sr) == IF IsNone(sr) THEN _samplerate ELSE sr[1]

C5_FailsWhen ==
    /\ ret.op \in {"samplerate_as", "min_start_as"} =>
          IF ret.raised = ""
          THEN Depth >= 1 /\ RateOf(entered[Depth].new_samplerate) > 0
          ELSE ret.raised = RateError /\ RateOf(ret.new_samplerate) <= 0
    /\ (ret.op = "labels_at" /\ RateOf(ret.samplerate) <= 0) => ret.raised = RateError
    /\ (/\ ret.op = "labels_at"
        /\ cls = "ContiguousSequenceLabels"
        /\ ret.default_label = Str("raise")
        /\ RateOf(ret.samplerate) > 0
        /\ \E k \in 1 .. Len(ret.ends) :
              RLt(ret.ends[k],
                  min_start(_minstart_at_orig_sr, _orig_samplerate, RateOf(ret.samplerate))))
          => ret.raised = OutsideError

(* C5: a with-block given a rate <= 0 raises ValueError and opens no       *)
(* block, ContiguousSequenceLabels.labels_at with default_label 'raise'    *)
(* and an end below min_start raises KeyError, and the step of a failed    *)
(* call leaves samplerate, the anchor, the labels and what starts_ends and *)
(* min_start return as they were.                                          *)
C5_FailureLeavesInstance == [](C5_FailsWhen) /\ [][C5_FailureChangesNothing]_vars

(* labels_at(.., samplerate=3, default_label='raise') raised KeyError      *)
(* inside a min_start_as block nested in another block, at a samplerate    *)
(* other than 3                                                            *)
C5_Witness ==
    /\ ret.op = "labels_at" /\ ret.raised = OutsideError
    /\ ret.samplerate = Some(3)
    /\ Depth >= 2
    /\ entered[Depth].fn = "min_start_as"
    /\ _samplerate = 2

-----------------------------------------------------------------------------
(* Claims about SequenceLabels.labels_at *)

(* the boundaries the query was answered on: starts_ends at its samplerate *)
QueriedView ==
    starts_ends(_starts_ends, _minstart_at_orig_sr, _orig_samplerate,
                RateOf(ret.samplerate))

Answered ==
    ret.op = "labels_at" /\ ret.raised = "" /\ cls = "SequenceLabels"

(* the segments with start < t <= end, ascending *)
Covering(se, t) ==
    SortedInts({j \in 1 .. Len(se) : RLt(se[j][1], t) /\ RLe(t, se[j][2])})

(* C9: labels_at answers every end that some segment covers with the       *)
(* labels of exactly the segments j with start_j < end <= end_j, in        *)
(* ascending segment index.                                                *)
C9_LabelsOfCoveringSegments ==
    Answered =>
        \A k \in 1 .. Len(ret.ends) :
            Covering(QueriedView, ret.ends[k]) # <<>> =>
                ret.value[k] = Take(labels, Covering(QueriedView, ret.ends[k]))

(* the instance and the ends of the test module, answered as the test      *)
(* expects: one, two and three segments cover an end                       *)
C9_Witness ==
    /\ Answered
    /\ args.starts_ends = NonContiguousSmall
    /\ ret.ends = ExampleEnds
    /\ ret.value = <<<<1>>, <<1>>, <<0, 2>>, <<0, 2, 1>>, <<1>>, <<1>>>>

LargestEnd(se) ==
    CHOOSE e \in {se[j][2] : j \in 1 .. Len(se)} :
        \A j \in 1 .. Len(se) : RLe(se[j][2], e)

QueriedMinStart ==
    min_start(_minstart_at_orig_sr, _orig_samplerate, RateOf(ret.samplerate))

QueriedMaxEnd ==
    max_end(_starts_ends, _minstart_at_orig_sr, _orig_samplerate,
            RateOf(ret.samplerate))

(* C10, as claimed: an end at or before min_start, or at or after max_end, *)
(* is answered with default_label.                                         *)
C10_AtOrAfterMaxEndIsDefault ==
    Answered =>
        \A k \in 1 .. Len(ret.ends) :
            (RLe(ret.ends[k], QueriedMinStart) \/ RLe(QueriedMaxEnd, ret.ends[k]))
                => ret.value[k] = ret.default_label

(* C10, corrected: an end at or before min_start, or after the largest end *)
(* of all segments, is answered with default_label.                        *)
C10_BeyondAllSegmentsIsDefault ==
    Answered =>
        \A k \in 1 .. Len(ret.ends) :
            (RLe(ret.ends[k], QueriedMinStart)
                \/ RLt(LargestEnd(QueriedView), ret.ends[k]))
                => ret.value[k] = ret.default_label

(* inside min_start_as, ends at min_start and after the largest end were   *)
(* answered with default_label, and an end at max_end with a label         *)
C10_Witness ==
    /\ Answered
    /\ Depth = 1 /\ entered[1].fn = "min_start_as"
    /\ \E k \in 1 .. Len(ret.ends) :
          ret.ends[k] = QueriedMinStart /\ ret.value[k] = ret.default_label
    /\ \E k \in 1 .. Len(ret.ends) :
          RLt(LargestEnd(QueriedView), ret.ends[k]) /\ ret.value[k] = ret.default_label
    /\ \E k \in 1 .. Len(ret.ends) :
          ret.ends[k] = QueriedMaxEnd /\ ret.value[k] # ret.default_label

-----------------------------------------------------------------------------
(* Claims about the boundaries of a query and about                        *)
(* ContiguousSequenceLabels.labels_at                                      *)

Returned == ret.op = "labels_at" /\ ret.raised = ""

Contiguous == cls = "ContiguousSequenceLabels"

(* the segments an end on a boundary belongs to: those ending at t and     *)
(* those with t strictly inside, never one starting at t                   *)
EndingAtOrAround(se, t) ==
    SortedInts({j \in 1 .. Len(se) :
                   se[j][2] = t \/ (RLt(se[j][1], t) /\ RLt(t, se[j][2]))})

(* every end lies in (min_start, max_end] *)
AllWithin(ends) ==
    \A k \in 1 .. Len(ends) :
        RLt(QueriedMinStart, ends[k]) /\ RLe(ends[k], QueriedMaxEnd)

(* C11: an end that is the end of some segment is answered with the label  *)
(* of the segment ending there (ContiguousSequenceLabels), or with the     *)
(* labels of the segments ending there and of those it lies strictly       *)
(* inside (SequenceLabels), never with the label of a segment starting     *)
(* there; a ContiguousSequenceLabels query whose ends all lie in           *)
(* (min_start, max_end], max_end included, does not raise.                 *)
C11_BoundaryBelongsToEndingSegment ==
    /\ Returned =>
          \A k \in 1 .. Len(ret.ends), j \in 1 .. Len(labels) :
              QueriedView[j][2] = ret.ends[k] =>
                  IF Contiguous
                  THEN ret.value[k] = labels[j]
                  ELSE ret.value[k] =
                           Take(labels, EndingAtOrAround(QueriedView, ret.ends[k]))
    /\ (ret.op = "labels_at" /\ Contiguous /\ AllWithin(ret.ends)) => ret.raised = ""

(* the contiguous instance of the test module, queried with 'raise' at the *)
(* ends of the test module: 1, the end of the first segment, and 6, the    *)
(* last end, are answered 1 and 1                                          *)
C11_Witness ==
    /\ Returned /\ Contiguous
    /\ args.starts_ends = ContiguousSmall
    /\ ret.ends = ContiguousExampleEnds
    /\ ret.default_label = Str("raise")
    /\ ret.value = <<1, 1, 0, 2, 1, 1, 1>>

RaiseQuery ==
    ret.op = "labels_at" /\ Contiguous /\ ret.default_label = Str("raise")

(* C12, as claimed: with default_label 'raise' the query raises KeyError   *)
(* exactly when some end lies outside [min_start, max_end).                *)
C12_RaisesOutsideHalfOpenFromStart ==
    RaiseQuery =>
        (ret.raised = OutsideError <=>
            \E k \in 1 .. Len(ret.ends) :
                ~(RLe(QueriedMinStart, ret.ends[k]) /\ RLt(ret.ends[k], QueriedMaxEnd)))

(* C12, corrected: with default_label 'raise' the query raises KeyError    *)
(* exactly when some end lies outside (min_start, max_end], and otherwise  *)
(* returns one label per end.                                              *)
C12_RaisesOutsideHalfOpenToEnd ==
    RaiseQuery =>
        /\ ret.raised = OutsideError <=> ~AllWithin(ret.ends)
        /\ ret.raised = "" <=> AllWithin(ret.ends)
        /\ ret.raised = "" => Len(ret.value) = Len(ret.ends)

(* a query with 'raise' whose last end is max_end returned, inside a       *)
(* with-block                                                              *)
C12_Witness ==
    /\ RaiseQuery /\ ret.raised = ""
    /\ Depth = 1
    /\ ret.ends[Len(ret.ends)] = QueriedMaxEnd

(* the value a fill policy puts at an end outside the segments *)
FillOf(default_label) ==
    IF default_label = Str("zeros") THEN 0
    ELSE IF default_label = Str("ones") THEN 1
    ELSE default_label.n

(* the segment with start < t <= end *)
Containing(se, t) ==
    CHOOSE j \in 1 .. Len(se) : RLt(se[j][1], t) /\ RLe(t, se[j][2])

(* C13: with a fill policy the query returns one entry per end, in the     *)
(* order of the ends: the label of the one segment containing the end,     *)
(* whatever the policy, and 0, 1 or the value given for an end outside.    *)
C13_FillPolicies ==
    (Returned /\ Contiguous /\ ret.default_label # Str("raise")) =>
        /\ Len(ret.value) = Len(ret.ends)
        /\ \A k \in 1 .. Len(ret.ends) :
              IF RLt(QueriedMinStart, ret.ends[k]) /\ RLe(ret.ends[k], QueriedMaxEnd)
              THEN ret.value[k] = labels[Containing(QueriedView, ret.ends[k])]
              ELSE ret.value[k] = FillOf(ret.default_label)

(* the contiguous instance of the test module answered with a float fill,  *)
(* which is not of the labels' dtype, before its start and after its end   *)
C13_Witness ==
    /\ Returned /\ Contiguous
    /\ args.starts_ends = ContiguousSmall
    /\ ret.ends = GridEnds
    /\ ret.default_label = Num("float", 8)
    /\ ret.value = <<8, 8, 1, 1, 0, 0, 0, 0, 2, 2, 2, 1, 1, 1>>

-----------------------------------------------------------------------------
(* Claims about indexing and slicing *)

GotChild == ret.op = "__getitem__" /\ ret.raised = ""

(* C14: the instance s[idx] returns has samplerate and orig_samplerate      *)
(* equal to s.orig_samplerate, whatever with-blocks are open on s, and the *)
(* step leaves samplerate and orig_samplerate of s as they are.            *)
C14_ChildAtOrigRate ==
    /\ GotChild =>
          /\ child._samplerate = _orig_samplerate
          /\ child._orig_samplerate = _orig_samplerate
          /\ child.cls = cls
          /\ _samplerate = InnermostGiven(entered, Depth)
          /\ _orig_samplerate = args.samplerate

(* a slice of two segments taken inside samplerate_as(3) nested in         *)
(* samplerate_as(2), of an instance whose orig_samplerate is 1             *)
C14_Witness ==
    /\ GotChild
    /\ Depth = 2
    /\ entered[1].new_samplerate = Some(2) /\ entered[2].new_samplerate = Some(3)
    /\ entered[2].fn = "samplerate_as"
    /\ _samplerate = 3 /\ _orig_samplerate = 1
    /\ Len(child.labels) = 2
    /\ child._samplerate = 1

(* the boundaries the constructor stored *)
Canonical ==
    New(args.klass, args.starts_ends, args.labels, args.samplerate)._starts_ends

(* C15, as claimed: the boundaries of s[idx] are the rows idx selects of   *)
(* the boundaries stored at construction, also when s[idx] is taken inside *)
(* min_start_as after starts_ends was read there.                          *)
C15_ChildHasCanonicalBoundaries ==
    GotChild => child._starts_ends = Take(Canonical, ret.idx)

-----------------------------------------------------------------------------
(* Claims about _convert_samplerate *)

BothPositive == args.from_samplerate > 0 /\ args.to_samplerate > 0

Divides == BothPositive /\ args.to_samplerate % args.from_samplerate = 0

C16_Identity ==
    (ret.op = "_convert_samplerate" /\ BothPositive
        /\ args.from_samplerate = args.to_samplerate) =>
            ret.raised = "" /\ ret.value = args.value

C16_Raises ==
    ret.op = "_convert_samplerate" =>
        (ret.raised = ConvertError <=> ~BothPositive)

(* C16, as claimed: the conversion returns its argument for equal rates,   *)
(* raises ValueError when a rate is <= 0 and, for ints x, r1, r2 with r2   *)
(* a multiple of r1, converting x from r1 to r2 and back returns a number  *)
(* equal to x.                                                             *)
C16_RoundTripExactOnIntegers ==
    /\ C16_Identity
    /\ C16_Raises
    /\ (ret.op = "round trip" /\ Divides) =>
          ret.raised = "" /\ AsFloat(ret.value) = AsFloat(args.value)

(* C16, the part the code keeps: identity on equal rates, ValueError on a  *)
(* rate <= 0, an int from an int when the rate is multiplied by an int,    *)
(* and a round trip that returns x or one of the two floats next to x.     *)
C16_RoundTripWithinOneUlp ==
    /\ C16_Identity
    /\ C16_Raises
    /\ (ret.op = "_convert_samplerate" /\ Divides) =>
          ret.value = PyInt(args.value.n * (args.to_samplerate \div args.from_samplerate))
    /\ (ret.op = "round trip" /\ BothPositive) =>
          /\ ret.raised = ""
          /\ \/ AsFloat(ret.value) = AsFloat(args.value)
             \/ RoundUp(AsFloat(ret.value).mant, AsFloat(ret.value).exp)
                    = AsFloat(args.value)
             \/ AsFloat(ret.value)
                    = RoundUp(AsFloat(args.value).mant, AsFloat(args.value).exp)

-----------------------------------------------------------------------------
(* Claims about _flattened_indices *)

Flattened == ret.op = "_flattened_indices"

(* the segments whose span covers the bin from lo to hi, ascending *)
CoveringBin(se, lo, hi) ==
    SortedInts({j \in 1 .. Len(se) : RLe(se[j][1], lo) /\ RLe(hi, se[j][2])})

BinsAscend(bins) == \A i \in 1 .. Len(bins) - 1 : RLt(bins[i], bins[i + 1])

TagsAreCovering(fi, se) ==
    /\ Len(fi.labels_indices) = Len(fi.bins) - 1
    /\ \A i \in 1 .. Len(fi.labels_indices) :
          fi.labels_indices[i] = CoveringBin(se, fi.bins[i], fi.bins[i + 1])

(* C17, as claimed: every bin is tagged with the segments covering it, at  *)
(* least one, and the bins ascend from min_start to max_end.               *)
C17_EveryBinTagged ==
    Flattened =>
        /\ TagsAreCovering(ret.value, View(Self))
        /\ \A i \in 1 .. Len(ret.value.labels_indices) :
              ret.value.labels_indices[i] # <<>>
        /\ BinsAscend(ret.value.bins)
        /\ ret.value.bins[1] = MinStartOf(Self)
        /\ ret.value.bins[Len(ret.value.bins)] = MaxEndOf(Self)

(* C17, the part the code keeps: every bin is tagged with exactly the      *)
(* segments covering it, none for a bin in a gap, and the bins ascend from *)
(* min_start to the largest end.                                           *)
C17_BinsTaggedWithCoveringSegments ==
    Flattened =>
        /\ TagsAreCovering(ret.value, View(Self))
        /\ BinsAscend(ret.value.bins)
        /\ ret.value.bins[1] = MinStartOf(Self)
        /\ ret.value.bins[Len(ret.value.bins)] = LargestEnd(View(Self))

C17_Witness ==
    /\ Flattened
    /\ \E i \in 1 .. Len(ret.value.labels_indices) :
          ret.value.labels_indices[i] = <<>>
    /\ \E i \in 1 .. Len(ret.value.labels_indices) :
          Len(ret.value.labels_indices[i]) > 1

-----------------------------------------------------------------------------
(* Claims about max_end and the anchor *)

AnchorScopes == {i \in 1 .. Len(frames) : frames[i].fn = "min_start_as"}

(* the anchor in force outside every min_start_as block now open *)
OutsideAnchor ==
    IF AnchorScopes = {} THEN _minstart_at_orig_sr
    ELSE frames[CHOOSE i \in AnchorScopes : \A k \in AnchorScopes : i <= k].old_start

MinStartOutside == min_start(OutsideAnchor, _orig_samplerate, _samplerate)
MaxEndOutside ==
    max_end(_starts_ends, OutsideAnchor, _orig_samplerate, _samplerate)

ReadOfMaxEnd == ret.op = "max_end"

(* C18, as claimed: max_end read inside a min_start_as block is the        *)
(* max_end outside the block at the same rate.                             *)
C18_MaxEndIgnoresAnchor == ReadOfMaxEnd => ret.value = MaxEndOutside

(* C18, as the code has it: max_end is the end of the last segment of the  *)
(* shifted starts_ends, so inside a min_start_as block it is moved by the  *)
(* same offset as min_start.                                               *)
C18_MaxEndMovesWithAnchor ==
    ReadOfMaxEnd =>
        /\ ret.value = View(Self)[Len(View(Self))][2]
        /\ RSub(ret.value, MinStartOf(Self)) = RSub(MaxEndOutside, MinStartOutside)

C18_Witness ==
    /\ ReadOfMaxEnd
    /\ AnchorScopes # {}
    /\ ret.value # MaxEndOutside

-----------------------------------------------------------------------------
(* Claims about min_start_as *)

InAnchorScope == frames # <<>> /\ frames[Len(frames)].fn = "min_start_as"

(* C19, as claimed, for min_start: inside min_start_as(v, samplerate=r),   *)
(* min_start read at rate r equals v.                                      *)
C19_MinStartIsNewStart ==
    (ret.op = "min_start" /\ InAnchorScope) =>
        AsFloat(ret.value) = FloatOfInt(entered[Len(entered)].new_start)

(* C19 in exact arithmetic: inside min_start_as(v, samplerate=r) min_start *)
(* and starts_ends[0][0] are v, every duration is what it is outside the   *)
(* block at that rate, and min_start is starts_ends[0][0] in every state.  *)
C19_ExactShift ==
    /\ MinStartOf(Self) = View(Self)[1][1]
    /\ InAnchorScope => MinStartOf(Self) = R(entered[Len(entered)].new_start[1])
    /\ \A i \in 1 .. Len(_starts_ends) :
          RSub(View(Self)[i][2], View(Self)[i][1])
              = _convert_samplerate(RSub(_starts_ends[i][2], _starts_ends[i][1]),
                                    _orig_samplerate, _samplerate)

(* C20, as claimed: max_end is the largest end of any segment at the       *)
(* current samplerate, also when segments overlap or are nested.           *)
C20_MaxEndIsLargestEnd == ReadOfMaxEnd => ret.value = LargestEnd(View(Self))

-----------------------------------------------------------------------------
(* Claims about the two labels_at *)

AskedTwice == ret.op = "labels_at twice"

BaseOutside(k) == ret.base[k] = <<>>

(* C21: on contiguous segments the two labels_at agree.  With 'raise' the  *)
(* contiguous class raises exactly when the base class finds some end      *)
(* outside, and otherwise every base answer is the 1-tuple of the          *)
(* contiguous answer; with a fill no label equals, the contiguous class    *)
(* fills exactly the ends the base class finds outside.                    *)
C21_TwoLookUpsAgree ==
    AskedTwice =>
        /\ Len(ret.base) = Len(ret.ends)
        /\ IF ret.default_label = Str("raise")
           THEN IF ret.raised # ""
                THEN ret.raised = OutsideError
                     /\ \E k \in 1 .. Len(ret.ends) : BaseOutside(k)
                ELSE \A k \in 1 .. Len(ret.ends) : ret.base[k] = <<ret.value[k]>>
           ELSE \A k \in 1 .. Len(ret.ends) :
                   IF BaseOutside(k)
                   THEN ret.value[k] = ret.default_label.n
                   ELSE ret.value[k] # ret.default_label.n
                        /\ ret.base[k] = <<ret.value[k]>>

C21_Witness ==
    /\ AskedTwice
    /\ ret.raised = ""
    /\ Len(labels) > 1
    /\ \E k \in 1 .. Len(ret.ends) : BaseOutside(k)
    /\ \E k \in 1 .. Len(ret.ends) : ret.base[k] = <<labels[Len(labels)]>>
    /\ \E k \in 1 .. Len(ret.ends) : ret.base[k] = <<labels[1]>>

-----------------------------------------------------------------------------
(* Claims about the rate inside min_start_as *)

(* the innermost open block is a min_start_as that was given a rate *)
InRatedAnchorScope ==
    /\ Depth > 0
    /\ entered[Depth].fn = "min_start_as"
    /\ ~IsNone(entered[Depth].new_samplerate)

GivenRate == entered[Depth].new_samplerate[1]

C22_RateInside == InRatedAnchorScope => _samplerate = GivenRate

C22_Step ==
    /\ (Len(entered') = Len(entered) + 1 /\ InRatedAnchorScope')
           => /\ _samplerate' = GivenRate'
              /\ View(SelfAfter) = starts_ends(_starts_ends', _minstart_at_orig_sr',
                                               _orig_samplerate, GivenRate')
    /\ (InRatedAnchorScope /\ ret'.op = "labels_at" /\ ret'.raised = ""
            /\ IsNone(ret'.samplerate))
           => ret'.value = LabelsAtOf(Self, ret'.ends, Some(GivenRate),
                                      ret'.default_label).value
    /\ (InRatedAnchorScope /\ ret'.op = "max_end")
           => ret'.value = max_end(_starts_ends, _minstart_at_orig_sr,
                                   _orig_samplerate, GivenRate)
    /\ (Leaves /\ OutermostLeft.fn = "min_start_as")
           => /\ _samplerate' = OutermostLeft.samplerate
              /\ _minstart_at_orig_sr' = frames[Len(frames') + 1].old_start

(* C22: min_start_as given a rate r makes r the samplerate of its body,    *)
(* so starts_ends, max_end and labels_at inside are evaluated at r, and a  *)
(* step that leaves the block puts back the samplerate and the anchor of   *)
(* before it.                                                              *)
C22_AnchorScopeSetsRate == [](C22_RateInside) /\ [][C22_Step]_vars

(* labels_at without a samplerate has answered inside min_start_as given a *)
(* rate other than the one in force before                                 *)
C22_Witness ==
    /\ InRatedAnchorScope
    /\ entered[Depth].samplerate # GivenRate
    /\ ret.op = "labels_at" /\ ret.raised = "" /\ IsNone(ret.samplerate)

-----------------------------------------------------------------------------
(* Claims about labels_at and the rate of its ends *)

AskedAtOrig == ret.op = "labels_at twice"

Answer(r) == [raised |-> r.raised, value |-> IF r.raised = "" THEN r.value ELSE <<>>]

C23_SameAtOrig == AskedAtOrig => ret.at_orig = [raised |-> ret.raised, value |-> ret.value]

C23_NoneInside ==
    (ret'.op = "labels_at" /\ IsNone(ret'.samplerate) /\ Depth = 1)
        => [raised |-> ret'.raised, value |-> ret'.value]
              = Answer(LabelsAtOf(__exit__(Self, frames[1]), ret'.ends,
                                  Some(_samplerate), ret'.default_label))

(* C23, as claimed: labels_at(t, samplerate=r) answers as                  *)
(* labels_at(convert(t, r, orig_samplerate), samplerate=orig_samplerate)   *)
(* does, in any samplerate_as block, and labels_at(t) inside               *)
(* samplerate_as(r) answers as labels_at(t, samplerate=r) outside it.      *)
C23_RateInvariant == [](C23_SameAtOrig) /\ [][C23_NoneInside]_vars

(* a boundary written out as a decimal, <<>> when it does not terminate *)
AsDecimal(b) ==
    LET ld == LongDiv(b[1] % b[2], b[2], DecimalPlaces)
    IN  IF ld[2] = 0 THEN <<b[1] \div b[2]>> \o ld[1] ELSE <<>>

SameValue(e, b) == IF IsDecimal(e) THEN e = AsDecimal(b) ELSE e = b

(* no end rounds to what a boundary rounds to without being that boundary *)
ClearAt(ends, se) ==
    \A k \in 1 .. Len(ends), j \in 1 .. Len(se), c \in 1 .. 2 :
        Round(ends[k], rounded) = Round(se[j][c], rounded)
            => SameValue(ends[k], se[j][c])

ClearOfBoundaries ==
    /\ ClearAt(ret.ends,
               starts_ends(_starts_ends, _minstart_at_orig_sr, _orig_samplerate,
                           ret.samplerate[1]))
    /\ ClearAt(ConvertEnds(ret.ends, ret.samplerate[1], _orig_samplerate),
               starts_ends(_starts_ends, _minstart_at_orig_sr, _orig_samplerate,
                           _orig_samplerate))

(* C23, as the code has it: the two queries answer alike when, at the rate *)
(* given and at the original rate, no end is within the rounding of a      *)
(* boundary without being on it; labels_at(t) inside samplerate_as(r)      *)
(* answers as labels_at(t, samplerate=r) outside it.                       *)
C23_RateInvariantClearOfBoundaries ==
    [](AskedAtOrig => (ClearOfBoundaries => C23_SameAtOrig))
        /\ [][C23_NoneInside]_vars

C23_Witness ==
    /\ AskedAtOrig
    /\ ret.raised = ""
    /\ ret.samplerate # Some(_orig_samplerate)
    /\ frames # <<>>
    /\ _samplerate \notin {ret.samplerate[1], _orig_samplerate}
    /\ ClearOfBoundaries
    /\ ret.ends = NearEnds
    /\ Cardinality(Range(ret.value)) > 1

====
